---- MODULE Spec2Model ----
(***************************************************************************)
(* Model of habla.py: a narrated-routine interpreter.  A routine file is   *)
(* read line by line, every line is split on "/" into segments, and every  *)
(* segment is dispatched to one handler (pause, image, elapsed time,       *)
(* exercise, plain speech).  An optional background track is played by an  *)
(* external process that is stopped explicitly and by an exit hook.        *)
(*                                                                         *)
(* Text is a sequence of tokens.  A token is a string that stands for a    *)
(* run of characters of the line: a word, one blank, one "/", one digit,   *)
(* one "]" or the opening of a marker ("[PAUSE:", "[IMAGEN:", "[TIEMPO",   *)
(* "[EJERCICIO:").  No token other than "]" holds a "]", none other than   *)
(* "/" holds a "/", none other than " " holds white space, so the regular  *)
(* expressions of the program are matched token by token exactly as they   *)
(* are matched character by character.                                     *)
(***************************************************************************)
EXTENDS Integers, Sequences, FiniteSets, TLC

(***************************************************************************)
(* Text helpers                                                            *)
(***************************************************************************)
Digits == {"0", "1", "2", "3", "4", "5", "6", "7", "8", "9"}

DigitVal(d) ==
  CASE d = "0" -> 0 [] d = "1" -> 1 [] d = "2" -> 2 [] d = "3" -> 3
    [] d = "4" -> 4 [] d = "5" -> 5 [] d = "6" -> 6 [] d = "7" -> 7
    [] d = "8" -> 8 [] d = "9" -> 9

DigitTok(n) ==
  CASE n = 0 -> "0" [] n = 1 -> "1" [] n = 2 -> "2" [] n = 3 -> "3"
    [] n = 4 -> "4" [] n = 5 -> "5" [] n = 6 -> "6" [] n = 7 -> "7"
    [] n = 8 -> "8" [] n = 9 -> "9"

\* int(s) for a string of decimal digits
RECURSIVE ParseInt(_)
ParseInt(ds) ==
  IF ds = <<>> THEN 0
  ELSE 10 * ParseInt(SubSeq(ds, 1, Len(ds) - 1)) + DigitVal(ds[Len(ds)])

\* f"{n}" for a non-negative integer
RECURSIVE FormatInt(_)
FormatInt(n) ==
  IF n < 10 THEN <<DigitTok(n)>>
  ELSE FormatInt(n \div 10) \o <<DigitTok(n % 10)>>

\* s[i:] of a sequence, i counted from 1
Tail_(s, i) == SubSeq(s, i, Len(s))

\* str.strip(): drop the blanks at both ends
RECURSIVE LStrip(_)
LStrip(s) ==
  IF s # <<>> /\ s[1] = " " THEN LStrip(Tail(s)) ELSE s

RECURSIVE RStrip(_)
RStrip(s) ==
  IF s # <<>> /\ s[Len(s)] = " " THEN RStrip(SubSeq(s, 1, Len(s) - 1)) ELSE s

Strip(s) == LStrip(RStrip(s))

\* str.split('/'): the pieces between the slashes, empty pieces included
RECURSIVE Split(_)
Split(s) ==
  IF \A i \in 1..Len(s) : s[i] # "/" THEN <<s>>
  ELSE LET k == CHOOSE i \in 1..Len(s) :
                  s[i] = "/" /\ \A j \in 1..(i - 1) : s[j] # "/"
       IN <<SubSeq(s, 1, k - 1)>> \o Split(Tail_(s, k + 1))

\* end of the run of tokens of set S that starts at position i (i - 1 if none)
RECURSIVE RunEnd(_, _, _)
RunEnd(s, i, S) ==
  IF i <= Len(s) /\ s[i] \in S THEN RunEnd(s, i + 1, S) ELSE i - 1

NoMatch == [found |-> FALSE]

\* least element of a non-empty set of integers
Least(S) == CHOOSE x \in S : \A y \in S : x <= y

(***************************************************************************)
(* The four marker patterns (re.search: the leftmost match)                *)
(***************************************************************************)
\* r"\[PAUSE:(\d+)\](.*)"
PauseStarts(part) ==
  {i \in 1..Len(part) :
     /\ part[i] = "[PAUSE:"
     /\ LET e == RunEnd(part, i + 1, Digits)
        IN e >= i + 1 /\ e + 1 <= Len(part) /\ part[e + 1] = "]"}

MatchPause(part) ==
  IF PauseStarts(part) = {} THEN NoMatch
  ELSE LET i == Least(PauseStarts(part))
           e == RunEnd(part, i + 1, Digits)
       IN [found |-> TRUE, start |-> i,
           group1 |-> SubSeq(part, i + 1, e),
           group2 |-> Tail_(part, e + 2)]

\* position of the first "]" after position i (0 if there is none)
FirstClose(part, i) ==
  LET C == {c \in (i + 1)..Len(part) : part[c] = "]"}
  IN IF C = {} THEN 0 ELSE Least(C)

\* r"\[IMAGEN:\s*([^\]]+)\]": group 1 starts after the blanks, and is the
\* last blank when only blanks stand between the marker and its "]"
ImagenStarts(part) ==
  {i \in 1..Len(part) :
     part[i] = "[IMAGEN:" /\ FirstClose(part, i) >= i + 2}

MatchImagen(part) ==
  IF ImagenStarts(part) = {} THEN NoMatch
  ELSE LET i == Least(ImagenStarts(part))
           c == FirstClose(part, i)
           w == RunEnd(part, i + 1, {" "})
       IN [found |-> TRUE, start |-> i,
           group1 |-> IF w < c - 1 THEN SubSeq(part, w + 1, c - 1)
                      ELSE <<part[c - 1]>>,
           group2 |-> <<>>]

\* r"\[TIEMPO\]"
MatchTiempo(part) ==
  \E i \in 1..(Len(part) - 1) : part[i] = "[TIEMPO" /\ part[i + 1] = "]"

\* r"\[EJERCICIO:\s*(\d+)\]"
EjercicioStarts(part) ==
  {i \in 1..Len(part) :
     /\ part[i] = "[EJERCICIO:"
     /\ LET w == RunEnd(part, i + 1, {" "})
            e == RunEnd(part, w + 1, Digits)
        IN e >= w + 1 /\ e + 1 <= Len(part) /\ part[e + 1] = "]"}

MatchEjercicio(part) ==
  IF EjercicioStarts(part) = {} THEN NoMatch
  ELSE LET i == Least(EjercicioStarts(part))
           w == RunEnd(part, i + 1, {" "})
           e == RunEnd(part, w + 1, Digits)
       IN [found |-> TRUE, start |-> i,
           group1 |-> SubSeq(part, w + 1, e), group2 |-> <<>>]

(***************************************************************************)
(* The dispatch of one segment: which handler main calls, and with what    *)
(***************************************************************************)
Call(h, arg, text) == [h |-> h, arg |-> arg, text |-> text]

NoCall == Call("none", <<>>, <<>>)

\* the same chain with the image test placed before the pause test
ClassifyImagenFirst(part) ==
  IF MatchImagen(part).found
  THEN Call("imagen", Strip(MatchImagen(part).group1),
            IF MatchImagen(part).start > 1
            THEN Strip(SubSeq(part, 1, MatchImagen(part).start - 1))
            ELSE <<>>)
  ELSE IF MatchPause(part).found
  THEN Call("pausa", MatchPause(part).group1, Strip(MatchPause(part).group2))
  ELSE IF MatchTiempo(part) THEN Call("tiempo", <<>>, <<>>)
  ELSE IF MatchEjercicio(part).found
  THEN Call("ejercicio", Strip(MatchEjercicio(part).group1), <<>>)
  ELSE Call("plain", <<>>, part)

\* the image call given the text after the marker
ClassifyImagenTrailing(part) ==
  IF MatchPause(part).found
  THEN Call("pausa", MatchPause(part).group1, Strip(MatchPause(part).group2))
  ELSE IF MatchImagen(part).found
  THEN Call("imagen", Strip(MatchImagen(part).group1),
            Strip(Tail_(part, FirstClose(part, MatchImagen(part).start) + 1)))
  ELSE IF MatchTiempo(part) THEN Call("tiempo", <<>>, <<>>)
  ELSE IF MatchEjercicio(part).found
  THEN Call("ejercicio", Strip(MatchEjercicio(part).group1), <<>>)
  ELSE Call("plain", <<>>, part)

Classify(part) ==
  IF MatchPause(part).found
  THEN Call("pausa", MatchPause(part).group1, Strip(MatchPause(part).group2))
  ELSE IF MatchImagen(part).found
  THEN Call("imagen", Strip(MatchImagen(part).group1),
            IF MatchImagen(part).start > 1
            THEN Strip(SubSeq(part, 1, MatchImagen(part).start - 1))
            ELSE <<>>)
  ELSE IF MatchTiempo(part) THEN Call("tiempo", <<>>, <<>>)
  ELSE IF MatchEjercicio(part).found
  THEN Call("ejercicio", Strip(MatchEjercicio(part).group1), <<>>)
  ELSE Call("plain", <<>>, part)


(***************************************************************************)
(* Bounds and inputs                                                       *)
(***************************************************************************)
\* lines of a routine file, when main alone is explored
MaxLines == 2

\* lines of a routine file, when the whole script is explored
MaxScriptLines == 1

\* seconds the user takes to choose the routine file
SelectionSecs == 50

\* seconds the speech utility takes to speak one message
SpeakSecs == 25

\* value of time.time() when the module is loaded
StartEpoch == 1000

SecondsPerMinute == 60

SampleLines ==
  { <<" ">>,
    <<"[PAUSE:", "5", "]", " ", "hola", "/", "mira", " ", "[PAUSE:", "0", "]">>,
    <<" ", "mira", " ", "[IMAGEN:", " ", "foto", " ", "]", " ", "x", " ", "/",
      "a", "[PAUSE:", "7", "0", "]", "[IMAGEN:", "foto", "]">>,
    <<"[TIEMPO", "]", " ", "/", " ", "/", "[EJERCICIO:", " ", "0", "1", "2", "]">>,
    <<"[IMAGEN:", "foto", "]", " ", "texto", "/", "hola", " ",
      "[EJERCICIO:", "3", "]", "/", "[TIEMPO", "]">>,
    <<"[PAUSE:", "]", " ", "hola", "/", "[PAUSE:", "6", "0", "]", " ",
      "[TIEMPO", "]", "/", "[PAUSE:", "x", "]", "[IMAGEN:", "]",
      "[TIEMPO", "]", "x">> }

FilesUpTo(k) == UNION {[1..n -> SampleLines] : n \in 0..k}

\* results of running an external utility with subprocess.run(check=True):
\* it ran, it was not found, it ended with a non-zero status, or the call
\* raised another exception
RunOutcomes == {"ok", "missing", "failed", "raised"}

VARIABLES
  pc,                         \* position in the script body (lines 155-248)
  file,                       \* the lines of the routine file
  li, pi,                     \* line and part reached by the loops of main
  call,                       \* handler call of the current segment
  hpc,                        \* position in that handler
  log,                        \* what the handler of the current segment did
  dispatched,                 \* positions of the segments dispatched so far
  announced,                  \* [at, n] of every elapsed-time announcement
  now,                        \* time.time()
  start_time,                 \* line 14
  music_file_to_play,         \* "" stands for None and for the empty string
  music_process,              \* "None" or "handle" (a Popen object)
  proc,                       \* the player process: "none", "running", "exited"
  music_started_successfully,
  stopLog,                    \* what the calls of stop_background_music did
  stopCalls,                  \* number of calls of stop_background_music
  interrupt,                  \* where Ctrl-C arrived ("" if it did not)
  unhandled,                  \* an exception left the script body
  inputMissing,               \* main found no input file
  acted,                      \* kinds of external actions performed so far
  failedAt                    \* segment of the first failure that was caught

vars == <<pc, file, li, pi, call, hpc, log, dispatched, announced, now,
          start_time, music_file_to_play, music_process, proc,
          music_started_successfully, stopLog, stopCalls,
          interrupt, unhandled, inputMissing, acted, failedAt>>

driverVars == <<music_file_to_play, music_process, proc,
                music_started_successfully, stopLog, stopCalls>>

mainVars == <<li, pi, call, hpc, log, dispatched, announced, now,
              inputMissing, acted, failedAt>>

InitRest ==
  /\ li = 1
  /\ pi = 0
  /\ call = NoCall
  /\ hpc = ""
  /\ log = <<>>
  /\ dispatched = <<>>
  /\ announced = <<>>
  /\ start_time = StartEpoch
  /\ music_file_to_play = ""
  /\ music_process = "None"
  /\ proc = "none"
  /\ music_started_successfully = FALSE
  /\ stopLog = <<>>
  /\ stopCalls = 0
  /\ interrupt = ""
  /\ unhandled = FALSE
  /\ inputMissing = FALSE
  /\ acted = {}
  /\ failedAt = <<0, 0>>

\* the state when the module has been loaded (lines 14 and 17) and the
\* script body begins
Init ==
  /\ pc = "startup"
  /\ file \in FilesUpTo(MaxScriptLines)
  /\ now = StartEpoch
  /\ InitRest

\* the state when the script body calls main (line 238) after a selection
\* without background music
InitMain ==
  /\ pc = "main"
  /\ file \in FilesUpTo(MaxLines)
  /\ now = StartEpoch + SelectionSecs
  /\ InitRest



(***************************************************************************)
(* stop_background_music and start_background_music                        *)
(***************************************************************************)
\* what can happen once stop_background_music has found the player running:
\* it ends within the wait, the wait times out and it is killed, or one of
\* the two signalling calls raises an exception
StopOutcomes == {"exits_in_time", "timeout", "terminate_raises", "kill_raises"}

\* the test of line 59 without the poll()
StopFindsHandle(mp, pr) == mp # "None"

\* the test of line 59: a handle is held and poll() is None
StopFindsRunning(mp, pr) == mp # "None" /\ pr = "running"

\* the body of the outer try with the kill issued without a graceful request
StopEventsKillFirst(o) ==
  IF o = "exits_in_time" THEN <<"terminate", "wait_ok">> ELSE <<"kill">>

\* lines 61-70: the calls made and the notices of an exception, in order
StopEvents(o) ==
  CASE o = "exits_in_time"    -> <<"terminate", "wait_ok">>
    [] o = "timeout"          -> <<"terminate", "wait_timeout", "kill">>
    [] o = "terminate_raises" -> <<"terminate", "error">>
    [] o = "kill_raises"      -> <<"terminate", "wait_timeout", "kill", "error">>

\* the player after those calls: a signal that was delivered ends it
StopProc(o) ==
  IF o \in {"exits_in_time", "timeout"} THEN "exited" ELSE "running"

\* line 72
StopHandle(mp) == "None"

\* stop_background_music(), lines 56-72
StopBackgroundMusic(o) ==
  /\ stopCalls' = stopCalls + 1
  /\ IF StopFindsRunning(music_process, proc)
     THEN /\ stopLog' = stopLog \o StopEvents(o)
          /\ proc' = StopProc(o)
          /\ music_process' = StopHandle(music_process)
     ELSE /\ o = "exits_in_time"
          /\ UNCHANGED <<stopLog, proc, music_process>>

\* start_background_music(path), lines 32-54: path is "" (nothing given),
\* "bad" (no such file) or "good"; o is the outcome of Popen
StartBackgroundMusic(path, o) ==
  IF path = "" \/ path = "bad" \/ o # "ok"
  THEN /\ music_started_successfully' = FALSE
       /\ UNCHANGED <<music_process, proc, acted>>
  ELSE /\ music_process' = "handle"
       /\ proc' = "running"
       /\ acted' = acted \cup {"music"}
       /\ music_started_successfully' = TRUE

(***************************************************************************)
(* The script body: selection of the routine file and of the music         *)
(***************************************************************************)
\* lines 160-165 and 239-241: glob("*.txt")
Startup ==
  /\ pc = "startup"
  /\ \E hasTxt \in BOOLEAN :
       pc' = IF hasTxt THEN "file_prompt" ELSE "finish"
  /\ UNCHANGED <<file, start_time, interrupt, unhandled>>
  /\ UNCHANGED driverVars
  /\ UNCHANGED mainVars

\* a rejected answer at a prompt: the loop asks again
Rejected == UNCHANGED <<pc, interrupt, unhandled, music_file_to_play>>

\* lines 170-184: the routine-file prompt
FilePrompt ==
  /\ pc = "file_prompt"
  /\ \E answer \in {"valid", "out_of_range", "not_a_number", "ctrl_c"} :
       CASE answer = "valid" ->
              /\ pc' = "music_question"
              /\ now' = now + SelectionSecs
              /\ UNCHANGED <<interrupt, unhandled, music_file_to_play>>
         [] answer = "ctrl_c" ->
              /\ pc' = "finish"
              /\ interrupt' = "file_prompt"
              /\ UNCHANGED <<now, unhandled, music_file_to_play>>
         [] OTHER -> Rejected /\ UNCHANGED now
  /\ UNCHANGED <<file, start_time, music_process, proc,
                 music_started_successfully, stopLog, stopCalls>>
  /\ UNCHANGED <<li, pi, call, hpc, log, dispatched, announced,
                 inputMissing, acted, failedAt>>

\* an exception that no handler of the script body catches: the interpreter
\* prints the traceback and runs the exit hooks
Propagate(where) ==
  /\ pc' = "atexit"
  /\ interrupt' = where
  /\ unhandled' = TRUE

\* lines 187-201: the yes/no question: "s" and the listing of the mp3 files,
\* any other answer, or Ctrl-C
MusicQuestion ==
  /\ pc = "music_question"
  /\ \/ \E hasMp3 \in BOOLEAN :
          /\ pc' = IF hasMp3 THEN "mp3_prompt" ELSE "manual_no_mp3"
          /\ UNCHANGED <<interrupt, unhandled>>
     \/ /\ pc' = "main"
        /\ UNCHANGED <<interrupt, unhandled>>
     \/ Propagate("music_question")
  /\ UNCHANGED <<file, start_time>>
  /\ UNCHANGED driverVars
  /\ UNCHANGED mainVars

\* lines 203-205: the path prompt shown when there is no mp3 file
ManualNoMp3 ==
  /\ pc = "manual_no_mp3"
  /\ \E answer \in {"", "good", "bad", "ctrl_c"} :
       IF answer = "ctrl_c"
       THEN /\ Propagate("manual_no_mp3")
            /\ UNCHANGED music_file_to_play
       ELSE /\ music_file_to_play' = answer
            /\ pc' = "start_music"
            /\ UNCHANGED <<interrupt, unhandled>>
  /\ UNCHANGED <<file, start_time, music_process, proc,
                 music_started_successfully, stopLog, stopCalls>>
  /\ UNCHANGED mainVars

\* lines 212-232: the mp3 prompt
Mp3Prompt ==
  /\ pc = "mp3_prompt"
  /\ \E answer \in {"pick", "zero", "out_of_range", "not_a_number", "ctrl_c"} :
       CASE answer = "pick" ->
              /\ music_file_to_play' = "good"
              /\ pc' = "start_music"
              /\ UNCHANGED <<interrupt, unhandled>>
         [] answer = "zero" ->
              /\ pc' = "manual_mp3"
              /\ UNCHANGED <<interrupt, unhandled, music_file_to_play>>
         [] answer = "ctrl_c" ->
              /\ music_file_to_play' = ""
              /\ pc' = "start_music"
              /\ interrupt' = "music_selection"
              /\ UNCHANGED unhandled
         [] OTHER -> Rejected
  /\ UNCHANGED <<file, start_time, music_process, proc,
                 music_started_successfully, stopLog, stopCalls>>
  /\ UNCHANGED mainVars

\* lines 219-224 and 229-232: the path prompt reached by answering 0
ManualMp3 ==
  /\ pc = "manual_mp3"
  /\ \E answer \in {"", "good", "bad", "ctrl_c"} :
       /\ music_file_to_play' = IF answer = "ctrl_c" THEN "" ELSE answer
       /\ interrupt' = IF answer = "ctrl_c" THEN "music_selection" ELSE interrupt
  /\ pc' = "start_music"
  /\ UNCHANGED <<file, start_time, unhandled, music_process, proc,
                 music_started_successfully, stopLog, stopCalls>>
  /\ UNCHANGED mainVars

\* lines 234-235
StartMusic ==
  /\ pc = "start_music"
  /\ \E o \in {"ok", "missing", "raised"} :
       /\ (music_file_to_play \in {"", "bad"} => o = "ok")
       /\ StartBackgroundMusic(music_file_to_play, o)
  /\ pc' = "main"
  /\ UNCHANGED <<file, start_time, interrupt, unhandled, music_file_to_play,
                 stopLog, stopCalls>>
  /\ UNCHANGED <<li, pi, call, hpc, log, dispatched, announced, now,
                 inputMissing, failedAt>>

\* lines 244-248
Finish ==
  /\ pc = "finish"
  /\ IF music_started_successfully
     THEN \E o \in StopOutcomes : StopBackgroundMusic(o)
     ELSE UNCHANGED <<stopLog, stopCalls, proc, music_process>>
  /\ pc' = "atexit"
  /\ UNCHANGED <<file, start_time, interrupt, unhandled, music_file_to_play,
                 music_started_successfully>>
  /\ UNCHANGED mainVars

\* line 74: the exit hook, run when the interpreter ends
AtExit ==
  /\ pc = "atexit"
  /\ \E o \in StopOutcomes : StopBackgroundMusic(o)
  /\ pc' = "exited"
  /\ UNCHANGED <<file, start_time, interrupt, unhandled, music_file_to_play,
                 music_started_successfully>>
  /\ UNCHANGED mainVars

\* afplay plays the file once and ends
TrackEnds ==
  /\ pc # "exited"
  /\ proc = "running"
  /\ proc' = "exited"
  /\ UNCHANGED <<pc, file, start_time, interrupt, unhandled,
                 music_file_to_play, music_process,
                 music_started_successfully, stopLog, stopCalls>>
  /\ UNCHANGED mainVars


(***************************************************************************)
(* main and the handlers                                                   *)
(***************************************************************************)
Entry(op, text, n, res) ==
  [op |-> op, text |-> text, n |-> n, res |-> res,
   at |-> IF op = "sleep" THEN now ELSE 0]

ErrorNotice(what) == Entry("error", <<what>>, 0, "")

\* lines 124-126: the parts of one line
LineParts(line) ==
  IF Strip(line) = <<>> THEN <<>> ELSE Split(Strip(line))

\* lines 123-129: the next part that is not blank after part p of line l;
\* l = Len(f) + 1 when there is none
RECURSIVE NextPos(_, _, _)
NextPos(f, l, p) ==
  IF l > Len(f) THEN [l |-> Len(f) + 1, p |-> 0]
  ELSE IF p + 1 > Len(LineParts(f[l])) THEN NextPos(f, l + 1, 0)
  ELSE IF Strip(LineParts(f[l])[p + 1]) = <<>> THEN NextPos(f, l, p + 1)
  ELSE [l |-> l, p |-> p + 1]

PartAt(f, l, p) == Strip(LineParts(f[l])[p])

\* int(x / y) for y > 0: the quotient truncated towards zero
TruncDiv(x, y) == IF x >= 0 THEN x \div y ELSE -((-x) \div y)

\* the elapsed minutes rounded to the nearest minute
ElapsedMinutesRounded(current_time) ==
  TruncDiv((current_time - start_time) + 30, SecondsPerMinute)

\* lines 79-81
ElapsedMinutes(current_time) ==
  TruncDiv(current_time - start_time, SecondsPerMinute)

IsDigits(s) == s # <<>> /\ \A i \in 1..Len(s) : s[i] \in Digits

\* speak with a missing utility treated as fatal
SpeakPropagatesMissing(res) == res \in {"raised", "missing"}

\* lines 25-30: the exceptions of subprocess.run that speak and
\* manejar_imagen do not catch
SpeakPropagates(res) == res = "raised"

\* lines 21-30: what speak(text) does when the utility ends with res
SpeakEntries(text, res) ==
  IF Strip(text) = <<>> THEN <<>>
  ELSE <<Entry("say", text, 0, res)>>
       \o (IF res \in {"missing", "failed"}
           THEN <<ErrorNotice("say")>> ELSE <<>>)

\* a failure of an external utility caught at the current segment
Caught(res) ==
  failedAt' = IF res \in {"missing", "failed"} /\ failedAt = <<0, 0>>
              THEN <<li, pi>> ELSE failedAt

\* the handler ends and main goes on with the next part
Return == pc' = "loop" /\ hpc' = "done"

\* lines 152-153: an exception reaches the handler of main, which reports it
\* and returns
Abort == pc' = "finish" /\ hpc' = "aborted"

\* the entries pre, then speak(text), then position next of the handler
\* ("done": the handler returns).  subprocess.run blocks while the utility
\* speaks; a run that fails is taken to end at once
SpeakStep(pre, text, next) ==
  \E res \in RunOutcomes :
    LET spoke == Strip(text) # <<>>
    IN /\ (~spoke => res = "ok")
       /\ now' = IF spoke /\ res = "ok" THEN now + SpeakSecs ELSE now
       /\ acted' = IF spoke THEN acted \cup {"say"} ELSE acted
       /\ Caught(res)
       /\ IF spoke /\ SpeakPropagates(res)
          THEN /\ log' = log \o pre \o SpeakEntries(text, res)
                             \o <<ErrorNotice("main")>>
               /\ Abort
          ELSE /\ log' = log \o pre \o SpeakEntries(text, res)
               /\ IF next = "done" THEN Return
                  ELSE pc' = pc /\ hpc' = next

scriptVars == <<file, start_time, interrupt, unhandled>>

\* lines 113-119
MainEnter ==
  /\ pc = "main"
  /\ \E exists \in BOOLEAN :
       /\ inputMissing' = ~exists
       /\ pc' = IF exists THEN "loop" ELSE "finish"
  /\ UNCHANGED scriptVars
  /\ UNCHANGED driverVars
  /\ UNCHANGED <<li, pi, call, hpc, log, dispatched, announced, now, acted,
                 failedAt>>

\* first position of the handler of a call
Entry0(c) ==
  CASE c.h = "pausa" -> "pausa_text"
    [] c.h = "imagen" -> "imagen_text"
    [] OTHER -> c.h

\* lines 123-151: the loops reach the next part and classify it; main
\* returns when there is none
Dispatch ==
  /\ pc = "loop"
  /\ LET nx == NextPos(file, li, pi)
     IN /\ li' = nx.l
        /\ pi' = nx.p
        /\ IF nx.l > Len(file)
           THEN /\ pc' = "finish"
                /\ UNCHANGED <<call, hpc, log, dispatched>>
           ELSE /\ pc' = "handler"
                /\ call' = Classify(PartAt(file, nx.l, nx.p))
                /\ hpc' = Entry0(call')
                /\ log' = <<>>
                /\ dispatched' = Append(dispatched, <<nx.l, nx.p>>)
  /\ UNCHANGED scriptVars
  /\ UNCHANGED driverVars
  /\ UNCHANGED <<announced, now, inputMissing, acted, failedAt>>

handlerFrame == <<li, pi, call, dispatched, inputMissing>>

\* line 87
PausaText ==
  /\ pc = "handler" /\ hpc = "pausa_text"
  /\ SpeakStep(<<>>, call.text, "pausa_notice")
  /\ UNCHANGED scriptVars
  /\ UNCHANGED driverVars
  /\ UNCHANGED handlerFrame
  /\ UNCHANGED announced

\* lines 88-91 and 93-94
PausaNotice ==
  /\ pc = "handler" /\ hpc = "pausa_notice"
  /\ IF IsDigits(call.arg)
     THEN LET n == FormatInt(ParseInt(call.arg))
          IN SpeakStep(<<Entry("print", <<"Esperando", " ">> \o n
                                         \o <<" ", "segundos...">>, 0, "")>>,
                       n \o <<" ", "segundos">>, "pausa_sleep")
     ELSE /\ log' = Append(log, ErrorNotice("pausa"))
          /\ Return
          /\ UNCHANGED <<now, acted, failedAt>>
  /\ UNCHANGED scriptVars
  /\ UNCHANGED driverVars
  /\ UNCHANGED handlerFrame
  /\ UNCHANGED announced

\* a sleep that returns at once
SleepNone(n) == 0

\* line 92: the seconds time.sleep(n) blocks
Sleep(n) == n

PausaSleep ==
  /\ pc = "handler" /\ hpc = "pausa_sleep"
  /\ LET n == ParseInt(call.arg)
     IN /\ log' = Append(log, Entry("sleep", <<>>, n, ""))
        /\ now' = now + Sleep(n)
  /\ acted' = acted \cup {"sleep"}
  /\ UNCHANGED failedAt
  /\ Return
  /\ UNCHANGED scriptVars
  /\ UNCHANGED driverVars
  /\ UNCHANGED handlerFrame
  /\ UNCHANGED announced

\* line 97
ImagenText ==
  /\ pc = "handler" /\ hpc = "imagen_text"
  /\ SpeakStep(<<>>, call.text, "imagen_open")
  /\ UNCHANGED scriptVars
  /\ UNCHANGED driverVars
  /\ UNCHANGED handlerFrame
  /\ UNCHANGED announced

\* lines 98-104
ImagenOpen ==
  /\ pc = "handler" /\ hpc = "imagen_open"
  /\ \E res \in RunOutcomes :
       LET did == <<Entry("print", <<"Abriendo la imagen", " ">> \o call.arg, 0, ""),
                    Entry("open", call.arg, 0, res)>>
       IN /\ Caught(res)
          /\ IF SpeakPropagates(res)
             THEN /\ log' = log \o did \o <<ErrorNotice("main")>>
                  /\ Abort
             ELSE /\ log' = log \o did \o (IF res = "ok" THEN <<>>
                                           ELSE <<ErrorNotice("open")>>)
                  /\ Return
  /\ acted' = acted \cup {"open"}
  /\ UNCHANGED scriptVars
  /\ UNCHANGED driverVars
  /\ UNCHANGED handlerFrame
  /\ UNCHANGED <<announced, now>>

\* lines 78-84
Tiempo ==
  /\ pc = "handler" /\ hpc = "tiempo"
  /\ LET message == <<"Han transcurrido", " ">>
                    \o FormatInt(ElapsedMinutes(now))
                    \o <<" ", "minutos desde el inicio de la ejecucion">>
     IN SpeakStep(<<Entry("print", message, 0, "")>>, message, "done")
  /\ announced' = Append(announced, [at |-> now, n |-> ElapsedMinutes(now)])
  /\ UNCHANGED scriptVars
  /\ UNCHANGED driverVars
  /\ UNCHANGED handlerFrame

\* lines 106-109
Ejercicio ==
  /\ pc = "handler" /\ hpc = "ejercicio"
  /\ LET message == <<"Ejercicio", " ">> \o call.arg
     IN SpeakStep(<<Entry("print", message, 0, "")>>, message, "done")
  /\ UNCHANGED scriptVars
  /\ UNCHANGED driverVars
  /\ UNCHANGED handlerFrame
  /\ UNCHANGED announced

\* line 151
Plain ==
  /\ pc = "handler" /\ hpc = "plain"
  /\ SpeakStep(<<>>, call.text, "done")
  /\ UNCHANGED scriptVars
  /\ UNCHANGED driverVars
  /\ UNCHANGED handlerFrame
  /\ UNCHANGED announced

\* Ctrl-C while a handler runs: KeyboardInterrupt is no Exception, so the
\* handler of lines 152-153 lets it pass and it leaves the script body
Interrupt ==
  /\ pc = "handler"
  /\ Propagate(IF hpc = "pausa_sleep" THEN "pause" ELSE "narration")
  /\ hpc' = "interrupted"
  /\ UNCHANGED <<file, start_time>>
  /\ UNCHANGED driverVars
  /\ UNCHANGED <<li, pi, call, log, dispatched, announced, now,
                 inputMissing, acted, failedAt>>

Next ==
  \/ Startup
  \/ FilePrompt
  \/ MusicQuestion
  \/ ManualNoMp3
  \/ Mp3Prompt
  \/ ManualMp3
  \/ StartMusic
  \/ MainEnter
  \/ Dispatch
  \/ PausaText
  \/ PausaNotice
  \/ PausaSleep
  \/ ImagenText
  \/ ImagenOpen
  \/ Tiempo
  \/ Ejercicio
  \/ Plain
  \/ Interrupt
  \/ Finish
  \/ AtExit
  \/ TrackEnds

\* the whole script
Spec == Init /\ [][Next]_vars

NextMain ==
  \/ MainEnter
  \/ Dispatch
  \/ PausaText
  \/ PausaNotice
  \/ PausaSleep
  \/ ImagenText
  \/ ImagenOpen
  \/ Tiempo
  \/ Ejercicio
  \/ Plain
  \/ Interrupt
  \/ Finish
  \/ AtExit

\* main, called without background music, up to the end of the program
SpecMain == InitMain /\ [][NextMain]_vars


(***************************************************************************)
(* Properties                                                              *)
(***************************************************************************)
Range(q) == {q[i] : i \in 1..Len(q)}

IsPrefix(a, b) == Len(a) <= Len(b) /\ SubSeq(b, 1, Len(a)) = a

\* the segment dispatched last
LastPart ==
  PartAt(file, dispatched[Len(dispatched)][1], dispatched[Len(dispatched)][2])

NotError(e) == e.op # "error"

\* the external actions and notices of a log, without the error notices and
\* without the results
Attempts(l) ==
  LET a == SelectSeq(l, NotError)
  IN [i \in 1..Len(a) |-> <<a[i].op, a[i].text, a[i].n>>]

HandlerOrder == <<"pausa", "imagen", "tiempo", "ejercicio", "plain">>

Matches(h, part) ==
  CASE h = "pausa" -> MatchPause(part).found
    [] h = "imagen" -> MatchImagen(part).found
    [] h = "tiempo" -> MatchTiempo(part)
    [] h = "ejercicio" -> MatchEjercicio(part).found
    [] h = "plain" -> TRUE

HandlerPositions(h) ==
  CASE h = "pausa" -> {"pausa_text", "pausa_notice", "pausa_sleep"}
    [] h = "imagen" -> {"imagen_text", "imagen_open"}
    [] OTHER -> {h}

\* C1: every segment main dispatches is trimmed and not empty, and the one
\* handler that runs for it is the first of pause, image, time, exercise,
\* plain speech whose pattern the segment matches
C1_FirstMatchWins ==
  dispatched # <<>> =>
    /\ LastPart # <<>>
    /\ Strip(LastPart) = LastPart
    /\ call.h = HandlerOrder[Least({k \in 1..5 : Matches(HandlerOrder[k], LastPart)})]
    /\ hpc \in HandlerPositions(call.h) \cup {"done", "aborted", "interrupted"}

C1_Witness ==
  /\ dispatched # <<>>
  /\ MatchPause(LastPart).found
  /\ MatchImagen(LastPart).found
  /\ call.h = "pausa"
  /\ hpc = "done"

\* what a segment holding a pause marker must cause, in order
PauseExpected(part) ==
  LET m == MatchPause(part)
      n == ParseInt(m.group1)
      t == Strip(m.group2)
  IN (IF t # <<>> THEN << <<"say", t, 0>> >> ELSE <<>>)
     \o << <<"print", <<"Esperando", " ">> \o FormatInt(n)
                       \o <<" ", "segundos...">>, 0>>,
           <<"say", FormatInt(n) \o <<" ", "segundos">>, 0>>,
           <<"sleep", <<>>, n>> >>

\* C2: for a segment holding [PAUSE:N] the handler speaks the trimmed text
\* after the marker (if any), prints the waiting notice, speaks "N segundos"
\* and sleeps N seconds, in that order and nothing else; when it returns all
\* four are done and N seconds have passed since the sleep began
C2_PauseSequence ==
  (dispatched # <<>> /\ MatchPause(LastPart).found) =>
    /\ IsPrefix(Attempts(log), PauseExpected(LastPart))
    /\ hpc = "done" =>
         /\ Attempts(log) = PauseExpected(LastPart)
         /\ now - log[Len(log)].at >= ParseInt(MatchPause(LastPart).group1)

C2_Witness ==
  /\ dispatched # <<>>
  /\ MatchPause(LastPart).found
  /\ MatchPause(LastPart).start > 1
  /\ Strip(MatchPause(LastPart).group2) # <<>>
  /\ ParseInt(MatchPause(LastPart).group1) > 0
  /\ hpc = "done"

\* what a segment dispatched as an image must cause, in order
ImagenExpected(part) ==
  LET i == Least({k \in 1..Len(part) :
                    part[k] = "[IMAGEN:" /\ FirstClose(part, k) > k + 1})
      c == FirstClose(part, i)
      lead == Strip(SubSeq(part, 1, i - 1))
      path == Strip(SubSeq(part, i + 1, c - 1))
  IN (IF lead # <<>> THEN << <<"say", lead, 0>> >> ELSE <<>>)
     \o << <<"print", <<"Abriendo la imagen", " ">> \o path, 0>>,
           <<"open", path, 0>> >>

\* C3: for a segment dispatched as an image the handler speaks the trimmed
\* text before the marker (if any), then opens the trimmed path, and does
\* nothing else: the text after the marker is not spoken
C3_ImageSequence ==
  (dispatched # <<>> /\ call.h = "imagen") =>
    /\ IsPrefix(Attempts(log), ImagenExpected(LastPart))
    /\ hpc = "done" => Attempts(log) = ImagenExpected(LastPart)

C3_Witness ==
  /\ dispatched # <<>>
  /\ call.h = "imagen"
  /\ hpc = "done"
  /\ Len(Attempts(log)) = 3
  /\ Strip(Tail_(LastPart, FirstClose(LastPart, MatchImagen(LastPart).start) + 1))
       # <<>>

\* the segments of a file: the parts that are not blank
Positions(f) ==
  UNION { {<<l, p>> : p \in {q \in 1..(Len(f[l]) + 1) :
                               /\ q <= Len(Split(Strip(f[l])))
                               /\ Strip(Split(Strip(f[l]))[q]) # <<>>}}
          : l \in 1..Len(f) }

Before(a, b) == a[1] < b[1] \/ (a[1] = b[1] /\ a[2] < b[2])

\* q lists, in order and without a gap, the first segments of f
InOrder(q, f) ==
  /\ Range(q) \subseteq Positions(f)
  /\ \A i, j \in 1..Len(q) : i < j => Before(q[i], q[j])
  /\ \A x \in Positions(f) :
       (q # <<>> /\ Before(x, q[Len(q)])) => x \in Range(q)

\* C4: a speech or viewer failure (utility missing, non-zero status) is
\* reported and does not end the processing: main leaves a handler early only
\* on Ctrl-C or on another exception, segments are dispatched in order without
\* a gap, and the loop of main ends only when every segment was dispatched
C4_FailureDoesNotAbort ==
  [][ /\ dispatched' # dispatched => InOrder(dispatched', file)
      /\ (pc = "loop" /\ pc' = "finish") => Range(dispatched) = Positions(file)
      /\ (pc = "handler" /\ pc' \notin {"handler", "loop"}) =>
           \/ interrupt' # interrupt
           \/ \E i \in 1..Len(log') : log'[i].res = "raised"
      /\ LET new == IF IsPrefix(log, log')
                    THEN SubSeq(log', Len(log) + 1, Len(log')) ELSE log'
         IN \A i \in 1..Len(new) :
              new[i].res \in {"missing", "failed"} =>
                /\ i < Len(new)
                /\ new[i + 1].op = "error"
                /\ pc' \in {"handler", "loop"} ]_vars

C4_Witness ==
  /\ pc = "exited"
  /\ ~unhandled
  /\ hpc = "done"
  /\ failedAt[1] = 1
  /\ Range(dispatched) = Positions(file)
  /\ \E x \in Range(dispatched) : x[1] = 1 /\ x[2] > failedAt[2]
  /\ \E x \in Range(dispatched) : x[1] > 1

\* C5: once the player was started, the program does not exit without having
\* called stop_background_music, and no player is left running
C5_NoPlayerLeftAtExit ==
  (pc = "exited" /\ "music" \in acted) => (stopCalls >= 1 /\ proc # "running")

SelectionPrompts ==
  {"file_prompt", "music_question", "manual_no_mp3", "music_selection"}

\* C6: Ctrl-C at a prompt of the selection phase is caught: it never leaves
\* the script body as an unhandled exception
C6_SelectionInterruptCaught ==
  interrupt \in SelectionPrompts => ~unhandled

\* C7: when main finds no input file, no segment was dispatched and no
\* speech, image, pause or background-audio action was performed
C7_MissingInputNothingDone ==
  inputMissing => (dispatched = <<>> /\ acted = {})

\* C8: a call of stop_background_music made when no track was started, when
\* the track ended by itself, or after an earlier call, signals nothing,
\* reports no error and leaves the handle and the player as they are
C8_StopIdempotent ==
  [][ ( /\ stopCalls' = stopCalls + 1
        /\ \/ "music" \notin acted
           \/ proc = "exited"
           \/ stopCalls >= 1 )
      => UNCHANGED <<stopLog, music_process, proc>> ]_vars

C8_Witness ==
  /\ stopCalls = 2
  /\ \E i \in 1..Len(stopLog) : stopLog[i] = "terminate"

\* C9: every elapsed-time announcement gives the whole minutes between the
\* one start timestamp and the moment of the announcement, rounded down, and
\* the announced minutes never decrease within a session
C9_ElapsedMinutes ==
  /\ start_time = StartEpoch
  /\ \A i \in 1..Len(announced) :
       /\ announced[i].at >= start_time
       /\ announced[i].n * SecondsPerMinute <= announced[i].at - start_time
       /\ announced[i].at - start_time < (announced[i].n + 1) * SecondsPerMinute
  /\ \A i, j \in 1..Len(announced) : i < j => announced[i].n <= announced[j].n

C9_Witness ==
  /\ Len(announced) >= 2
  /\ announced[1].n < announced[Len(announced)].n
  /\ \E i \in 1..Len(announced) :
       (announced[i].at - start_time) % SecondsPerMinute >= 30

\* C10: a call of stop_background_music that finds the player running
\* requests termination first, kills only after that request and a wait that
\* timed out, and has cleared the handle when it returns, also when one of
\* the calls raised an exception
C10_GracefulThenKill ==
  [][ (stopCalls' = stopCalls + 1 /\ music_process # "None" /\ proc = "running")
      => LET new == SubSeq(stopLog', Len(stopLog) + 1, Len(stopLog'))
         IN /\ new # <<>>
            /\ new[1] = "terminate"
            /\ \A i \in 1..Len(new) :
                 new[i] = "kill" => (i = 3 /\ new[2] = "wait_timeout")
            /\ music_process' = "None" ]_vars

C10_Witness ==
  /\ music_process = "None"
  /\ \E i \in 1..Len(stopLog) : stopLog[i] = "kill"
  /\ \E i \in 1..Len(stopLog) : stopLog[i] = "error"


====
